---- MODULE Spec2Model ----
(***************************************************************************)
(* A model of the registry ticket manager: an insertion-ordered map from   *)
(* identifiers to values (an IndexMap) whose entries are also addressed by *)
(* typed integer tickets, and the iteration adapters over it.  The ticket  *)
(* type is the one the RegistryTicket derive generates for a newtype       *)
(* around an unsigned integer whose largest value is TicketMax.            *)
(***************************************************************************)
EXTENDS Integers, Sequences, FiniteSets, TLC

\* Largest value of the unsigned integer the ticket type wraps (uN::MAX);
\* 1 is a one-bit integer, which numbers the positions 0 and 1.
TicketMax == 1

\* Number of distinct values of type T the callers store.
NumValues == 2

\* Width of usize, in bits, for the derived ticket conversions.
UsizeBits == 5

\* One identifier more than the ticket type can number, so that the
\* ticket type can be exhausted with an identifier still absent.
NumIds == TicketMax + 2

Identifiers == 0 .. (NumIds - 1)
Values == 1 .. NumValues

\* Option<X>: None is the empty sequence, Some(x) the one-element sequence.
None == << >>
Some(x) == << x >>
IsSome(o) == o /= None
Unwrap(o) == o[1]

VARIABLES
    map,        \* IndexMap entries, in insertion order: [key, value] records
    ret,        \* the last call and what it returned
    panicked,   \* TRUE once an unwrap or an index has panicked
    handed,     \* history: every ticket a call has returned so far
    first,      \* history: identifier -> what its first successful insert returned
    order,      \* history: identifiers in order of their first successful insert
    latest,     \* history: identifier -> the value last inserted or written for it
    iter,       \* the iteration adapter that borrows the manager, if any
    trav        \* history: what the adapter has yielded and skipped so far

vars == << map, ret, panicked, handed, first, order, latest, iter, trav >>

----------------------------------------------------------------------------
\* The ticket type: RegistryTicket as the derive macro implements it.

\* Self(raw): the newtype around the unsigned integer.
Ticket(raw) == [raw |-> raw]

\* index.try_into().ok().map(Self)
from_index(index) ==
    IF index <= TicketMax THEN Some(Ticket(index)) ELSE None

\* self.0 as usize
to_index(ticket) == ticket.raw

----------------------------------------------------------------------------
\* The IndexMap the manager wraps.  Positions are 0-based as in the code.

\* map.len()
len(m) == Len(m)

\* map.is_empty()
is_empty(m) == Len(m) = 0

\* The entry at 0-based position i.
EntryAt(m, i) == m[i + 1]

\* map.get_index_of(id): the position of the entry whose key equals id.
get_index_of(m, id) ==
    IF \E i \in 1 .. Len(m) : m[i].key = id
    THEN Some((CHOOSE i \in 1 .. Len(m) : m[i].key = id) - 1)
    ELSE None

\* map.contains_key(id)
contains_id(m, id) == IsSome(get_index_of(m, id))

\* A plausible slip: self.len() taken as the position instead of entry.index().
entry_index_always_len(m, id) == Len(m)

\* map.entry(id).index(): the position of the occupied entry, or the
\* position a vacant entry would be inserted at.
entry_index(m, id) ==
    IF contains_id(m, id) THEN Unwrap(get_index_of(m, id)) ELSE Len(m)

\* A plausible slip: the position is counted from the back of the map.
SetValue_from_back(m, i, v) == [m EXCEPT ![Len(m) - i].value = v]

\* Writing value v into the entry at position i.
SetValue(m, i, v) == [m EXCEPT ![i + 1].value = v]

\* Ticket::from_index(self.len()).is_some()
can_insert(m) == IsSome(from_index(len(m)))

\* map.get(id)
get_id(m, id) ==
    IF contains_id(m, id)
    THEN Some(EntryAt(m, Unwrap(get_index_of(m, id))).value)
    ELSE None

\* A plausible slip: a 1-based position turned into the ticket, which the
\* ticket type cannot make for the last entry of a full map.
get_id_full_one_based(m, id) ==
    LET idx == get_index_of(m, id) IN
    IF idx = None THEN None
    ELSE LET t == from_index(Unwrap(idx) + 1) IN
         IF t = None THEN None
         ELSE Some([ticket |-> Unwrap(t),
                    id     |-> EntryAt(m, Unwrap(idx)).key,
                    value  |-> EntryAt(m, Unwrap(idx)).value])

\* map.get_full(id)?, then Ticket::from_index(idx)?
get_id_full(m, id) ==
    LET idx == get_index_of(m, id) IN
    IF idx = None THEN None
    ELSE LET t == from_index(Unwrap(idx)) IN
         IF t = None THEN None
         ELSE Some([ticket |-> Unwrap(t),
                    id     |-> EntryAt(m, Unwrap(idx)).key,
                    value  |-> EntryAt(m, Unwrap(idx)).value])

\* map.get_full_mut(id)?, then Ticket::from_index(idx)?
get_id_full_mut(m, id) ==
    LET idx == get_index_of(m, id) IN
    IF idx = None THEN None
    ELSE LET t == from_index(Unwrap(idx)) IN
         IF t = None THEN None
         ELSE Some([ticket |-> Unwrap(t),
                    id     |-> EntryAt(m, Unwrap(idx)).key,
                    value  |-> EntryAt(m, Unwrap(idx)).value])

\* A plausible slip: the position taken from the entry API, which also
\* names a position (len()) for an identifier that is absent.
get_ticket_of_via_entry(m, id) == from_index(entry_index(m, id))

\* A plausible slip: a 1-based position turned into the ticket.
get_ticket_of_one_based(m, id) ==
    LET idx == get_index_of(m, id) IN
    IF idx = None THEN None ELSE from_index(Unwrap(idx) + 1)

\* map.get_index_of(id).and_then(Ticket::from_index)
get_ticket_of(m, id) ==
    LET idx == get_index_of(m, id) IN
    IF idx = None THEN None ELSE from_index(Unwrap(idx))

\* A ticket-keyed access is in bounds (otherwise the index or unwrap panics).
InBounds(m, ticket) == to_index(ticket) < Len(m)

\* A plausible slip: the position counted from the back of the map.
get_ticket_from_back(m, ticket) == m[Len(m) - to_index(ticket)].value

\* &self.map[ticket.to_index()]
get_ticket(m, ticket) == EntryAt(m, to_index(ticket)).value

\* self.map.get_index(ticket.to_index()).unwrap()
get_ticket_full(m, ticket) ==
    [id    |-> EntryAt(m, to_index(ticket)).key,
     value |-> EntryAt(m, to_index(ticket)).value]

\* &mut self.map[ticket.to_index()]
get_ticket_mut(m, ticket) == EntryAt(m, to_index(ticket)).value

\* self.map.get_index_mut(ticket.to_index()).unwrap()
get_ticket_full_mut(m, ticket) ==
    [id    |-> EntryAt(m, to_index(ticket)).key,
     value |-> EntryAt(m, to_index(ticket)).value]

\* Index<Ticket>::index: self.get_ticket(ticket)
index(m, ticket) == get_ticket(m, ticket)

\* IndexMut<Ticket>::index_mut: self.get_ticket_mut(ticket)
index_mut(m, ticket) == get_ticket_mut(m, ticket)

----------------------------------------------------------------------------
\* The iteration adapters: Enumerate over the IndexMap's entry iterator.
\* front .. back-1 are the positions the inner iterator has not yielded,
\* count is Enumerate's running index.

\* No adapter borrows the manager.
NoIter == [kind |-> "none", front |-> 0, back |-> 0, count |-> 0]

\* self.iter.len(): what the inner iterator has left.
Remaining(it) == it.back - it.front

\* What a step of the adapter gives: the adapter afterwards and None, or
\* Some of Enumerate's index and the position of the entry it goes with.
Stepped(it, item) == [it |-> it, item |-> item]

\* A plausible slip: Enumerate's index is advanced before it is used, so
\* the indices run from 1.
enum_next_counts_first(it) ==
    IF Remaining(it) = 0 THEN Stepped(it, None)
    ELSE Stepped([it EXCEPT !.front = @ + 1, !.count = @ + 1],
                 Some([idx |-> it.count + 1, pos |-> it.front]))

\* self.iter.next()
enum_next(it) ==
    IF Remaining(it) = 0 THEN Stepped(it, None)
    ELSE Stepped([it EXCEPT !.front = @ + 1, !.count = @ + 1],
                 Some([idx |-> it.count, pos |-> it.front]))

\* A plausible slip: a successful skip advances Enumerate's index by the
\* entries skipped but not by the one returned.
enum_nth_index_short(it, n) ==
    IF n >= Remaining(it) THEN Stepped([it EXCEPT !.front = it.back], None)
    ELSE Stepped([it EXCEPT !.front = @ + n + 1, !.count = @ + n],
                 Some([idx |-> it.count + n, pos |-> it.front + n]))

\* self.iter.nth(n): a skip past the end empties the inner iterator and
\* leaves Enumerate's index alone.
enum_nth(it, n) ==
    IF n >= Remaining(it) THEN Stepped([it EXCEPT !.front = it.back], None)
    ELSE Stepped([it EXCEPT !.front = @ + n + 1, !.count = @ + n + 1],
                 Some([idx |-> it.count + n, pos |-> it.front + n]))

\* A plausible slip: the index of an item taken from the back is counted
\* within what the inner iterator has left, not from the start of the map.
enum_next_back_from_remaining(it) ==
    IF Remaining(it) = 0 THEN Stepped(it, None)
    ELSE LET b == it.back - 1 IN
         Stepped([it EXCEPT !.back = b],
                 Some([idx |-> b - it.front, pos |-> b]))

\* A plausible slip: the index of an item taken from the back is computed
\* from the length before the item is taken, one too high.
enum_next_back_len_before(it) ==
    IF Remaining(it) = 0 THEN Stepped(it, None)
    ELSE LET b == it.back - 1 IN
         Stepped([it EXCEPT !.back = b],
                 Some([idx |-> it.count + (it.back - it.front), pos |-> b]))

\* self.iter.next_back(): the index is count plus what is left after it.
enum_next_back(it) ==
    IF Remaining(it) = 0 THEN Stepped(it, None)
    ELSE LET b == it.back - 1 IN
         Stepped([it EXCEPT !.back = b],
                 Some([idx |-> it.count + (b - it.front), pos |-> b]))

\* A plausible slip: a skip from the back past the front returns None
\* without emptying the inner iterator.
enum_nth_back_keeps_rest(it, n) ==
    IF n >= Remaining(it) THEN Stepped(it, None)
    ELSE LET b == it.back - n - 1 IN
         Stepped([it EXCEPT !.back = b],
                 Some([idx |-> it.count + (b - it.front), pos |-> b]))

\* self.iter.nth_back(n)
enum_nth_back(it, n) ==
    IF n >= Remaining(it) THEN Stepped([it EXCEPT !.back = it.front], None)
    ELSE LET b == it.back - n - 1 IN
         Stepped([it EXCEPT !.back = b],
                 Some([idx |-> it.count + (b - it.front), pos |-> b]))

\* map_next fails: Ticket::from_index(idx).unwrap() panics.
map_next_panics(item) == from_index(item.idx) = None

\* map_next: (Ticket::from_index(idx).unwrap(), id, val)
map_next(m, item) ==
    [ticket |-> Unwrap(from_index(item.idx)),
     id     |-> EntryAt(m, item.pos).key,
     value  |-> EntryAt(m, item.pos).value]

\* The history of an adapter nothing was asked of yet: how many entries it
\* yielded or skipped at the front and at the back, the identifiers it
\* yielded, and whether it has returned None.
NoTrav == [front |-> 0, back |-> 0, seen |-> {}, exhausted |-> FALSE]

\* A call needs the manager unborrowed (exclusive) or not mutably borrowed.
Borrowable(exclusive) ==
    IF exclusive THEN iter.kind = "none" ELSE iter.kind /= "iter_mut"

----------------------------------------------------------------------------
\* RegistryManager::new()
Init ==
    /\ map = << >>
    /\ ret = [op |-> "new", arg |-> None, out |-> None]
    /\ panicked = FALSE
    /\ handed = {}
    /\ first = [id \in Identifiers |-> None]
    /\ order = << >>
    /\ latest = [id \in Identifiers |-> None]
    /\ iter = NoIter
    /\ trav = NoTrav

\* A plausible slip: insert refuses whenever can_insert() is false, also
\* for an identifier that is already present.
insert_result_needs_capacity(m, id) ==
    IF ~can_insert(m) THEN None
    ELSE LET t == from_index(entry_index(m, id)) IN
         IF t = None THEN None
         ELSE Some([ticket |-> Unwrap(t), old |-> get_id(m, id)])

\* A plausible slip: both arms return (ticket, None), dropping the
\* replaced value.
insert_result_drops_old(m, id) ==
    LET t == from_index(entry_index(m, id)) IN
    IF t = None THEN None
    ELSE Some([ticket |-> Unwrap(t), old |-> None])

\* What insert returns: None, or Some((ticket, replaced value)).
insert_result(m, id) ==
    LET t == from_index(entry_index(m, id)) IN
    IF t = None THEN None
    ELSE Some([ticket |-> Unwrap(t), old |-> get_id(m, id)])

\* A plausible slip: the value is pushed before the ticket is made, so a
\* failed insert has already grown the map.
insert_map_before_check(m, id, value) ==
    IF contains_id(m, id)
    THEN SetValue(m, Unwrap(get_index_of(m, id)), value)
    ELSE Append(m, [key |-> id, value |-> value])

\* A plausible slip: every insert pushes a new entry, present or not.
insert_map_appends(m, id, value) ==
    IF from_index(entry_index(m, id)) = None THEN m
    ELSE Append(m, [key |-> id, value |-> value])

\* A plausible slip: the vacant arm returns the ticket without inserting.
insert_map_skips_vacant(m, id, value) ==
    IF from_index(entry_index(m, id)) = None THEN m
    ELSE IF contains_id(m, id)
         THEN SetValue(m, Unwrap(get_index_of(m, id)), value)
         ELSE m

\* A plausible slip: a present identifier is removed and pushed again, so
\* the entries behind it shift down.
insert_map_moves_to_back(m, id, value) ==
    IF from_index(entry_index(m, id)) = None THEN m
    ELSE IF contains_id(m, id)
         THEN Append(SelectSeq(m, LAMBDA e : e.key /= id),
                     [key |-> id, value |-> value])
         ELSE Append(m, [key |-> id, value |-> value])

\* The map insert leaves behind.
insert_map(m, id, value) ==
    IF from_index(entry_index(m, id)) = None THEN m
    ELSE IF contains_id(m, id)
         THEN SetValue(m, Unwrap(get_index_of(m, id)), value)
         ELSE Append(m, [key |-> id, value |-> value])

\* RegistryManager::insert(id, value)
Insert(id, value) ==
    LET r == insert_result(map, id) IN
    /\ ~panicked
    /\ Borrowable(TRUE)
    /\ map' = insert_map(map, id, value)
    /\ ret' = [op |-> "insert", arg |-> << id, value >>, out |-> r]
    /\ handed' = IF IsSome(r) THEN handed \cup {Unwrap(r).ticket} ELSE handed
    /\ first' = IF IsSome(r) /\ first[id] = None
                THEN [first EXCEPT ![id] = Some(Unwrap(r).ticket)]
                ELSE first
    /\ order' = IF IsSome(r) /\ first[id] = None THEN Append(order, id) ELSE order
    /\ latest' = IF IsSome(r) THEN [latest EXCEPT ![id] = Some(value)] ELSE latest
    /\ UNCHANGED << panicked, iter, trav >>

\* A call that reads the manager: it records what it returned and the
\* tickets that came with it, and leaves the map alone.
Returns(op, arg, out, tickets) ==
    /\ ~panicked
    /\ Borrowable(FALSE)
    /\ ret' = [op |-> op, arg |-> arg, out |-> out]
    /\ handed' = handed \cup tickets
    /\ UNCHANGED << map, panicked, first, order, latest, iter, trav >>

\* The identifiers whose first insert returned this ticket: the entries the
\* caller means when it writes through the ticket.
OwnersOf(ticket) == {id \in Identifiers : first[id] = Some(ticket)}

\* A call that hands out a mutable reference to the value at position i,
\* through which the caller then stores value w, meaning the entries of
\* the identifiers in ids.
ReturnsMut(op, arg, out, tickets, i, w, ids) ==
    /\ ~panicked
    /\ Borrowable(TRUE)
    /\ map' = SetValue(map, i, w)
    /\ ret' = [op |-> op, arg |-> arg, out |-> out]
    /\ handed' = handed \cup tickets
    /\ latest' = [id \in Identifiers |->
                    IF id \in ids THEN Some(w) ELSE latest[id]]
    /\ UNCHANGED << panicked, first, order, iter, trav >>

\* An index or unwrap that is out of bounds: the call panics.
Panics(op, arg, exclusive) ==
    /\ ~panicked
    /\ Borrowable(exclusive)
    /\ panicked' = TRUE
    /\ ret' = [op |-> op, arg |-> arg, out |-> None]
    /\ UNCHANGED << map, handed, first, order, latest, iter, trav >>

\* RegistryManager::len()
LenCall == Returns("len", None, len(map), {})

\* RegistryManager::is_empty()
IsEmpty == Returns("is_empty", None, is_empty(map), {})

\* RegistryManager::can_insert()
CanInsert == Returns("can_insert", None, can_insert(map), {})

\* RegistryManager::contains_id(id)
ContainsId(id) == Returns("contains_id", id, contains_id(map, id), {})

\* RegistryManager::get_id(id)
GetId(id) == Returns("get_id", id, get_id(map, id), {})

\* RegistryManager::get_id_full(id)
GetIdFull(id) ==
    LET r == get_id_full(map, id) IN
    Returns("get_id_full", id, r, IF IsSome(r) THEN {Unwrap(r).ticket} ELSE {})

\* RegistryManager::get_id_mut(id); the caller stores w through the reference.
GetIdMut(id, w) ==
    LET r == get_id(map, id) IN
    IF IsSome(r)
    THEN ReturnsMut("get_id_mut", id, r, {}, Unwrap(get_index_of(map, id)), w, {id})
    ELSE Returns("get_id_mut", id, r, {})

\* RegistryManager::get_id_full_mut(id); the caller stores w through the reference.
GetIdFullMut(id, w) ==
    LET r == get_id_full_mut(map, id) IN
    IF IsSome(r)
    THEN ReturnsMut("get_id_full_mut", id, r, {Unwrap(r).ticket},
                    Unwrap(get_index_of(map, id)), w, {id})
    ELSE Returns("get_id_full_mut", id, r, {})

\* RegistryManager::get_ticket(ticket)
GetTicket(ticket) ==
    IF InBounds(map, ticket)
    THEN Returns("get_ticket", ticket, get_ticket(map, ticket), {})
    ELSE Panics("get_ticket", ticket, FALSE)

\* RegistryManager::get_ticket_full(ticket)
GetTicketFull(ticket) ==
    IF InBounds(map, ticket)
    THEN Returns("get_ticket_full", ticket, get_ticket_full(map, ticket), {})
    ELSE Panics("get_ticket_full", ticket, FALSE)

\* RegistryManager::get_ticket_mut(ticket); the caller stores w through the reference.
GetTicketMut(ticket, w) ==
    IF InBounds(map, ticket)
    THEN ReturnsMut("get_ticket_mut", ticket, get_ticket_mut(map, ticket), {},
                    to_index(ticket), w, OwnersOf(ticket))
    ELSE Panics("get_ticket_mut", ticket, TRUE)

\* RegistryManager::get_ticket_full_mut(ticket); the caller stores w through the reference.
GetTicketFullMut(ticket, w) ==
    IF InBounds(map, ticket)
    THEN ReturnsMut("get_ticket_full_mut", ticket, get_ticket_full_mut(map, ticket), {},
                    to_index(ticket), w, OwnersOf(ticket))
    ELSE Panics("get_ticket_full_mut", ticket, TRUE)

\* RegistryManager::get_ticket_of(id)
GetTicketOf(id) ==
    LET r == get_ticket_of(map, id) IN
    Returns("get_ticket_of", id, r, IF IsSome(r) THEN {Unwrap(r)} ELSE {})

\* Index<Ticket>::index: manager[ticket]
IndexOp(ticket) ==
    IF InBounds(map, ticket)
    THEN Returns("index", ticket, index(map, ticket), {})
    ELSE Panics("index", ticket, FALSE)

\* IndexMut<Ticket>::index_mut: manager[ticket] = w
IndexMutOp(ticket, w) ==
    IF InBounds(map, ticket)
    THEN ReturnsMut("index_mut", ticket, index_mut(map, ticket), {},
                    to_index(ticket), w, OwnersOf(ticket))
    ELSE Panics("index_mut", ticket, TRUE)

\* The callers hold only tickets the manager has handed out.
Next ==
    \/ \E id \in Identifiers, value \in Values : Insert(id, value)
    \/ LenCall
    \/ IsEmpty
    \/ CanInsert
    \/ \E id \in Identifiers : ContainsId(id)
    \/ \E id \in Identifiers : GetId(id)
    \/ \E id \in Identifiers : GetIdFull(id)
    \/ \E id \in Identifiers, w \in Values : GetIdMut(id, w)
    \/ \E id \in Identifiers, w \in Values : GetIdFullMut(id, w)
    \/ \E ticket \in handed : GetTicket(ticket)
    \/ \E ticket \in handed : GetTicketFull(ticket)
    \/ \E ticket \in handed, w \in Values : GetTicketMut(ticket, w)
    \/ \E ticket \in handed, w \in Values : GetTicketFullMut(ticket, w)
    \/ \E id \in Identifiers : GetTicketOf(id)
    \/ \E ticket \in handed : IndexOp(ticket)
    \/ \E ticket \in handed, w \in Values : IndexMutOp(ticket, w)

Spec == Init /\ [][Next]_vars

----------------------------------------------------------------------------
\* The adapters' calls.  An Iter borrows the manager shared, an IterMut
\* exclusively, until it is dropped or consumed.

\* Skips the callers ask nth and nth_back for: up to the last place of the
\* longest map, which is past the end of every adapter that has moved.
Skips == 0 .. TicketMax

\* An adapter over the whole map: the inner iterator at its start,
\* Enumerate's index at 0.
IterNew(kind) ==
    /\ ~panicked
    /\ Borrowable(TRUE)
    /\ iter' = [kind |-> kind, front |-> 0, back |-> Len(map), count |-> 0]
    /\ ret' = [op |-> kind, arg |-> None, out |-> None]
    /\ trav' = NoTrav
    /\ UNCHANGED << map, panicked, handed, first, order, latest >>

\* The adapter goes out of scope and the borrow ends.
IterDrop ==
    /\ ~panicked
    /\ iter.kind /= "none"
    /\ iter' = NoIter
    /\ ret' = [op |-> "drop", arg |-> None, out |-> None]
    /\ trav' = NoTrav
    /\ UNCHANGED << map, panicked, handed, first, order, latest >>

\* The history after a call that returned None: the adapter has reported
\* exhaustion, and a skip that ran past the end skipped all that was left.
TravNone(op) ==
    [trav EXCEPT !.exhausted = TRUE,
                 !.front = IF op = "nth" THEN Len(map) - trav.back ELSE @,
                 !.back = IF op = "nth_back" THEN Len(map) - trav.front ELSE @]

\* The history after a call that yielded the entry of identifier id:
\* next and next_back yield one entry, nth(n) and nth_back(n) skip n more.
TravSome(op, arg, id) ==
    [trav EXCEPT !.seen = @ \cup {id},
                 !.front = IF op = "next" THEN @ + 1
                           ELSE IF op = "nth" THEN @ + arg + 1 ELSE @,
                 !.back = IF op = "next_back" THEN @ + 1
                          ELSE IF op = "nth_back" THEN @ + arg + 1 ELSE @]

\* A call on the adapter of the given kind that stepped the inner iterator
\* to r and maps the item with map_next; `after` is the adapter the call
\* leaves (NoIter when the call consumes it).  Through the item of an
\* IterMut the caller stores w; the items of an Iter are shared references
\* and w is not used.
IterCall(kind, op, arg, r, after, w) ==
    /\ ~panicked
    /\ iter.kind = kind
    /\ IF r.item = None
       THEN /\ iter' = after
            /\ ret' = [op |-> op, arg |-> arg, out |-> None]
            /\ trav' = IF after = NoIter THEN NoTrav ELSE TravNone(op)
            /\ UNCHANGED << map, panicked, handed, first, order, latest >>
       ELSE IF map_next_panics(Unwrap(r.item))
       THEN /\ panicked' = TRUE
            /\ ret' = [op |-> op, arg |-> arg, out |-> None]
            /\ UNCHANGED << map, handed, first, order, latest, iter, trav >>
       ELSE LET item == map_next(map, Unwrap(r.item)) IN
            /\ iter' = after
            /\ ret' = [op |-> op, arg |-> arg, out |-> Some(item)]
            /\ trav' = IF after = NoIter THEN NoTrav ELSE TravSome(op, arg, item.id)
            /\ handed' = handed \cup {item.ticket}
            /\ map' = IF kind = "iter_mut"
                      THEN SetValue(map, Unwrap(r.item).pos, w)
                      ELSE map
            /\ latest' = IF kind = "iter_mut"
                         THEN [latest EXCEPT ![item.id] = Some(w)]
                         ELSE latest
            /\ UNCHANGED << panicked, first, order >>

\* What the inner iterator has left, in order, as next() would give it.
enum_rest(it) ==
    [k \in 1 .. Remaining(it) |->
        [idx |-> it.count + (k - 1), pos |-> it.front + (k - 1)]]

\* collect: self.iter.map(map_next).collect(), which consumes the adapter.
IterCollectCall(kind) ==
    LET rest == enum_rest(iter) IN
    /\ ~panicked
    /\ iter.kind = kind
    /\ IF \E k \in 1 .. Len(rest) : map_next_panics(rest[k])
       THEN /\ panicked' = TRUE
            /\ ret' = [op |-> "collect", arg |-> None, out |-> None]
            /\ UNCHANGED << map, handed, first, order, latest, iter, trav >>
       ELSE LET items == [k \in 1 .. Len(rest) |-> map_next(map, rest[k])] IN
            /\ iter' = NoIter
            /\ ret' = [op |-> "collect", arg |-> None, out |-> items]
            /\ handed' = handed \cup {items[k].ticket : k \in 1 .. Len(items)}
            /\ trav' = NoTrav
            /\ UNCHANGED << map, panicked, first, order, latest >>

\* A call on the adapter of the given kind that only reads it; a call
\* that takes the adapter by value (count) consumes it.
IterRead(kind, op, out, consumes) ==
    /\ ~panicked
    /\ iter.kind = kind
    /\ ret' = [op |-> op, arg |-> None, out |-> out]
    /\ iter' = IF consumes THEN NoIter ELSE iter
    /\ trav' = IF consumes THEN NoTrav ELSE trav
    /\ UNCHANGED << map, panicked, handed, first, order, latest >>

\* A plausible slip: size_hint is not forwarded and the Iterator trait's
\* default answers.
size_hint_default(it) == << 0, None >>

\* self.iter.size_hint(): the inner iterator knows its length exactly.
size_hint(it) == << Remaining(it), Some(Remaining(it)) >>

\* Iter::len
IterLen == IterRead("iter", "iter_len", Remaining(iter), FALSE)

\* Iter::size_hint
IterSizeHint == IterRead("iter", "size_hint", size_hint(iter), FALSE)

\* Iter::count
IterCount == IterRead("iter", "count", Remaining(iter), TRUE)

\* IterMut::len
IterMutLen == IterRead("iter_mut", "iter_len", Remaining(iter), FALSE)

\* IterMut::size_hint
IterMutSizeHint == IterRead("iter_mut", "size_hint", size_hint(iter), FALSE)

\* IterMut::count
IterMutCount == IterRead("iter_mut", "count", Remaining(iter), TRUE)

\* Iter::collect
IterCollect == IterCollectCall("iter")

\* IterMut::collect
IterMutCollect == IterCollectCall("iter_mut")

\* Iter::next
IterNext ==
    LET r == enum_next(iter) IN
    IterCall("iter", "next", None, r, r.it, 1)

\* Iter::nth
IterNth(n) ==
    LET r == enum_nth(iter, n) IN
    IterCall("iter", "nth", n, r, r.it, 1)

\* Iter::last
IterLast ==
    LET r == enum_next_back(iter) IN
    IterCall("iter", "last", None, r, NoIter, 1)

\* Iter::next_back
IterNextBack ==
    LET r == enum_next_back(iter) IN
    IterCall("iter", "next_back", None, r, r.it, 1)

\* Iter::nth_back
IterNthBack(n) ==
    LET r == enum_nth_back(iter, n) IN
    IterCall("iter", "nth_back", n, r, r.it, 1)

\* IterMut::next
IterMutNext(w) ==
    LET r == enum_next(iter) IN
    IterCall("iter_mut", "next", None, r, r.it, w)

\* IterMut::nth
IterMutNth(n, w) ==
    LET r == enum_nth(iter, n) IN
    IterCall("iter_mut", "nth", n, r, r.it, w)

\* IterMut::last
IterMutLast(w) ==
    LET r == enum_next_back(iter) IN
    IterCall("iter_mut", "last", None, r, NoIter, w)

\* IterMut::next_back
IterMutNextBack(w) ==
    LET r == enum_next_back(iter) IN
    IterCall("iter_mut", "next_back", None, r, r.it, w)

\* IterMut::nth_back
IterMutNthBack(n, w) ==
    LET r == enum_nth_back(iter, n) IN
    IterCall("iter_mut", "nth_back", n, r, r.it, w)

\* The adapters' calls together with the manager's calls that change the
\* map or hand out tickets.
NextIter ==
    \/ \E id \in Identifiers, value \in Values : Insert(id, value)
    \/ \E id \in Identifiers : GetIdFull(id)
    \/ \E ticket \in handed : GetTicketFull(ticket)
    \/ \E id \in Identifiers, w \in Values : GetIdFullMut(id, w)
    \/ \E id \in Identifiers : GetTicketOf(id)
    \/ IterNew("iter")
    \/ IterNew("iter_mut")
    \/ IterDrop
    \/ IterNext
    \/ \E n \in Skips : IterNth(n)
    \/ IterLast
    \/ IterCollect
    \/ IterMutCollect
    \/ IterNextBack
    \/ \E n \in Skips : IterNthBack(n)
    \/ \E w \in Values : IterMutNext(w)
    \/ \E n \in Skips, w \in Values : IterMutNth(n, w)
    \/ \E w \in Values : IterMutLast(w)
    \/ \E w \in Values : IterMutNextBack(w)
    \/ \E n \in Skips, w \in Values : IterMutNthBack(n, w)

SpecIter == Init /\ [][NextIter]_vars

\* A traversal: the map is filled, an adapter is made over it, and every
\* call of the two adapters is made on it in any order.
NextAdapter ==
    \/ \E id \in Identifiers, value \in Values : Insert(id, value)
    \/ IterNew("iter")
    \/ IterNew("iter_mut")
    \/ IterDrop
    \/ IterNext
    \/ \E n \in Skips : IterNth(n)
    \/ IterLast
    \/ IterCollect
    \/ IterNextBack
    \/ \E n \in Skips : IterNthBack(n)
    \/ IterLen
    \/ IterSizeHint
    \/ IterCount
    \/ \E w \in Values : IterMutNext(w)
    \/ \E n \in Skips, w \in Values : IterMutNth(n, w)
    \/ \E w \in Values : IterMutLast(w)
    \/ IterMutCollect
    \/ \E w \in Values : IterMutNextBack(w)
    \/ \E n \in Skips, w \in Values : IterMutNthBack(n, w)
    \/ IterMutLen
    \/ IterMutSizeHint
    \/ IterMutCount

SpecAdapter == Init /\ [][NextAdapter]_vars

\* The ways to write a value in place: the map is filled and a value is
\* stored through every mutable accessor and through the items an IterMut
\* yields from its front, from its back and when it is consumed.
NextMut ==
    \/ \E id \in Identifiers, value \in Values : Insert(id, value)
    \/ \E id \in Identifiers, w \in Values : GetIdMut(id, w)
    \/ \E id \in Identifiers, w \in Values : GetIdFullMut(id, w)
    \/ \E ticket \in handed, w \in Values : GetTicketMut(ticket, w)
    \/ \E ticket \in handed, w \in Values : GetTicketFullMut(ticket, w)
    \/ \E ticket \in handed, w \in Values : IndexMutOp(ticket, w)
    \/ IterNew("iter_mut")
    \/ IterDrop
    \/ \E w \in Values : IterMutNext(w)
    \/ \E w \in Values : IterMutLast(w)
    \/ \E w \in Values : IterMutNextBack(w)

SpecMut == Init /\ [][NextMut]_vars

----------------------------------------------------------------------------
\* The derived RegistryTicket of a newtype over an unsigned integer of
\* `bits` bits, on a platform whose usize has UsizeBits bits.

\* The widths of the wrapped integer: up to the width of usize itself.
Widths == 1 .. UsizeBits

\* The values of a usize.
Positions == 0 .. (2 ^ UsizeBits - 1)

\* usize::try_into() for an unsigned integer of the given width: Err when
\* the value does not fit, modelled as None after .ok().
try_into(bits, position) ==
    IF position <= 2 ^ bits - 1 THEN Some(position) ELSE None

\* A plausible slip: the position is converted with `as`, which wraps.
derive_from_index_wrapping(bits, position) ==
    Some([raw |-> position % (2 ^ bits), bits |-> bits])

\* The derived from_index: index.try_into().ok().map(Self)
derive_from_index(bits, position) ==
    LET r == try_into(bits, position) IN
    IF r = None THEN None
    ELSE Some([raw |-> Unwrap(r), bits |-> bits])

\* The derived to_index: self.0 as usize
derive_to_index(ticket) == ticket.raw % (2 ^ UsizeBits)

\* A call of the derived from_index.
FromIndex(bits, position) ==
    /\ ret' = [op |-> "from_index", arg |-> << bits, position >>,
               out |-> derive_from_index(bits, position)]
    /\ UNCHANGED << map, panicked, handed, first, order, latest, iter, trav >>

\* A call of the derived to_index on a ticket of the given width.
ToIndex(bits, raw) ==
    LET ticket == [raw |-> raw, bits |-> bits] IN
    /\ ret' = [op |-> "to_index", arg |-> ticket,
               out |-> derive_to_index(ticket)]
    /\ UNCHANGED << map, panicked, handed, first, order, latest, iter, trav >>

\* The two generated conversions, called with every position and on every
\* ticket of every width.
NextTicket ==
    \/ \E bits \in Widths, position \in Positions : FromIndex(bits, position)
    \/ \E bits \in Widths : \E raw \in 0 .. (2 ^ bits - 1) : ToIndex(bits, raw)

SpecTicket == Init /\ [][NextTicket]_vars

----------------------------------------------------------------------------
\* What the claims speak of.

\* The identifiers stored in the map.
Keys(m) == {m[i].key : i \in 1 .. Len(m)}

\* The identifiers that were inserted successfully at least once.
Inserted == {id \in Identifiers : IsSome(first[id])}

\* The 0-based place of x in a sequence that contains it.
PosIn(seq, x) == (CHOOSE i \in 1 .. Len(seq) : seq[i] = x) - 1

\* This step is a call of insert; InsertedId is the identifier it was given.
InsertStep == ret'.op = "insert"
InsertedId == ret'.arg[1]
InsertedValue == ret'.arg[2]

\* The last call was a successful insert.
InsertSucceeded == ret.op = "insert" /\ IsSome(ret.out)

\* C1: the ticket a successful insert returns, projected with to_index, is
\* the 0-based place of the identifier among the identifiers in order of
\* their first successful insertion: the k-th distinct identifier gets k-1.
C1_TicketIsInsertionPosition ==
    /\ InsertSucceeded =>
          /\ \E i \in 1 .. Len(order) : order[i] = ret.arg[1]
          /\ to_index(Unwrap(ret.out).ticket) = PosIn(order, ret.arg[1])
    /\ \A k \in 1 .. Len(order) :
          /\ IsSome(first[order[k]])
          /\ to_index(Unwrap(first[order[k]])) = k - 1

\* C1 witness: the second distinct identifier was just inserted for the
\* first time and got position 1.
C1_Witness ==
    /\ InsertSucceeded
    /\ Unwrap(ret.out).old = None
    /\ to_index(Unwrap(ret.out).ticket) = 1
    /\ Len(order) = 2

\* C2: an insert of an absent identifier when len() is beyond what the
\* ticket type can number returns None and leaves the manager as it was.
C2_FailedInsertChangesNothing ==
    [][(InsertStep /\ first[InsertedId] = None /\ Len(map) > TicketMax) =>
              /\ ret'.out = None
              /\ map' = map
              /\ Len(map') = Len(map)
              /\ \A j \in Identifiers :
                    /\ get_id(map', j) = get_id(map, j)
                    /\ get_ticket_of(map', j) = get_ticket_of(map, j)
                    /\ get_id_full(map', j) = get_id_full(map, j)
              /\ ~contains_id(map', InsertedId)]_vars

\* C2 witness: an insert of an absent identifier has just failed on a
\* full manager.
C2_Witness ==
    /\ ret.op = "insert"
    /\ ret.out = None
    /\ first[ret.arg[1]] = None
    /\ Len(map) = TicketMax + 1

\* C3: an insert under a present identifier returns the ticket of the
\* identifier's first insertion and the value stored before, keeps len()
\* and every position, and leaves the new value to be found by get_id.
C3_ReinsertReplacesInPlace ==
    [][(InsertStep /\ IsSome(first[InsertedId])) =>
              /\ IsSome(ret'.out)
              /\ Some(Unwrap(ret'.out).ticket) = first[InsertedId]
              /\ IsSome(Unwrap(ret'.out).old)
              /\ Unwrap(ret'.out).old = latest[InsertedId]
              /\ \E i \in 1 .. Len(map) :
                    /\ map[i].key = InsertedId
                    /\ Unwrap(ret'.out).old = Some(map[i].value)
              /\ Len(map') = Len(map)
              /\ \A i \in 1 .. Len(map) : map'[i].key = map[i].key
              /\ get_id(map', InsertedId) = Some(InsertedValue)]_vars

\* C3 witness: a re-insertion has just replaced a value by a different one.
C3_Witness ==
    /\ InsertSucceeded
    /\ IsSome(Unwrap(ret.out).old)
    /\ Unwrap(ret.out).old /= Some(ret.arg[2])

\* C4: len() is the number of distinct identifiers inserted successfully;
\* a re-insertion keeps it, a first successful insertion adds exactly one,
\* and no step lowers it.
C4_LenCountsDistinctIds ==
    /\ [](len(map) = Cardinality(Inserted))
    /\ [][/\ len(map') >= len(map)
          /\ InsertStep =>
                len(map') = IF IsSome(first[InsertedId]) \/ ret'.out = None
                            THEN len(map)
                            ELSE len(map) + 1]_vars

\* C4 witness: two distinct identifiers are stored and the last call
\* re-inserted one of them.
C4_Witness ==
    /\ len(map) = 2
    /\ Cardinality(Inserted) = 2
    /\ InsertSucceeded
    /\ IsSome(Unwrap(ret.out).old)

\* C5: every ticket handed out so far encodes a position below len().
C5_HandedTicketsInRange ==
    \A ticket \in handed : to_index(ticket) < len(map)

\* C5 witness: every position's ticket is out and an insert has just failed.
C5_Witness ==
    /\ Cardinality(handed) = TicketMax + 1
    /\ ret.op = "insert"
    /\ ret.out = None

\* C6: the positions assigned so far are exactly 0 .. len()-1, and the
\* ticket of each identifier's first insertion still leads get_ticket_full
\* to that identifier.
C6_PositionsDenseAndStable ==
    /\ {to_index(Unwrap(first[id])) : id \in Inserted} = 0 .. (len(map) - 1)
    /\ \A id \in Inserted :
          /\ InBounds(map, Unwrap(first[id]))
          /\ get_ticket_full(map, Unwrap(first[id])).id = id

\* C6 witness: two positions are assigned and the last call wrote a value
\* in place through a ticket.
C6_Witness ==
    /\ len(map) = 2
    /\ ret.op = "get_ticket_mut"
    /\ to_index(ret.arg) = 0

\* C7: for an identifier that was inserted successfully, get_ticket_of,
\* get_id_full and get_id_full_mut give the ticket its first insert
\* returned, the latter two together with the stored identifier.
C7_LookupGivesInsertTicket ==
    /\ \A id \in Inserted :
          /\ get_ticket_of(map, id) = first[id]
          /\ IsSome(get_id_full(map, id))
          /\ Some(Unwrap(get_id_full(map, id)).ticket) = first[id]
          /\ Unwrap(get_id_full(map, id)).id = id
          /\ IsSome(get_id_full_mut(map, id))
          /\ Some(Unwrap(get_id_full_mut(map, id)).ticket) = first[id]
          /\ Unwrap(get_id_full_mut(map, id)).id = id
    /\ (ret.op = "get_ticket_of" /\ IsSome(first[ret.arg])) =>
          ret.out = first[ret.arg]
    /\ (ret.op \in {"get_id_full", "get_id_full_mut"} /\ IsSome(first[ret.arg])) =>
          /\ IsSome(ret.out)
          /\ Some(Unwrap(ret.out).ticket) = first[ret.arg]
          /\ Unwrap(ret.out).id = ret.arg

\* C7 witness: get_ticket_of has just returned the ticket of position 1
\* after the value under the identifier was replaced.
C7_Witness ==
    /\ ret.op = "get_ticket_of"
    /\ IsSome(ret.out)
    /\ to_index(Unwrap(ret.out)) = 1
    /\ ret.out = first[ret.arg]

\* C8: for every present identifier, get_id, get_ticket and the indexing
\* operator under its ticket give the value last inserted or written for
\* it, and get_ticket_full gives the identifier with that value.
C8_IdAndTicketAccessAgree ==
    \A id \in Inserted :
        LET t == get_ticket_of(map, id) IN
        /\ IsSome(t)
        /\ InBounds(map, Unwrap(t))
        /\ IsSome(latest[id])
        /\ get_id(map, id) = latest[id]
        /\ Some(get_ticket(map, Unwrap(t))) = latest[id]
        /\ Some(index(map, Unwrap(t))) = latest[id]
        /\ get_ticket_full(map, Unwrap(t)) =
              [id |-> id, value |-> Unwrap(latest[id])]

\* C8 witness: two entries hold different values and the last call wrote
\* one of them through the indexing operator.
C8_Witness ==
    /\ len(map) = 2
    /\ ret.op = "index_mut"
    /\ map[1].value /= map[2].value

\* C9: insert succeeds exactly when the identifier is present or
\* can_insert() holds; can_insert() tells whether len() is still within
\* the ticket type and changes nothing.
C9_InsertSucceedsIffPresentOrRoom ==
    [][/\ InsertStep =>
             (IsSome(ret'.out) <=> (IsSome(first[InsertedId]) \/ can_insert(map)))
       /\ ret'.op = "can_insert" =>
             /\ ret'.out = (Len(map) <= TicketMax)
             /\ ret'.out = can_insert(map)
             /\ map' = map]_vars

\* C9 witness: a re-insertion has just succeeded on a manager whose ticket
\* type is exhausted.
C9_Witness ==
    /\ InsertSucceeded
    /\ IsSome(Unwrap(ret.out).old)
    /\ ~can_insert(map)
    /\ Len(map) = TicketMax + 1

\* The calls that look an identifier up.
IdLookups ==
    {"get_id", "get_id_mut", "get_id_full", "get_id_full_mut", "get_ticket_of"}

\* C10: for an identifier never inserted, the identifier-keyed lookups
\* return None and contains_id returns false, with no panic and no change
\* to the map; contains_id agrees with get_id and get_ticket_of on every
\* identifier.
C10_AbsentIdIsNone ==
    /\ [](/\ ~panicked
          /\ \A id \in Identifiers :
                /\ first[id] = None =>
                      /\ get_id(map, id) = None
                      /\ get_id_full(map, id) = None
                      /\ get_id_full_mut(map, id) = None
                      /\ get_ticket_of(map, id) = None
                      /\ ~contains_id(map, id)
                /\ contains_id(map, id) <=> IsSome(first[id])
                /\ contains_id(map, id) <=> IsSome(get_id(map, id))
                /\ contains_id(map, id) <=> IsSome(get_ticket_of(map, id))
          /\ (ret.op \in IdLookups /\ first[ret.arg] = None) => ret.out = None
          /\ (ret.op = "contains_id" /\ first[ret.arg] = None) => ret.out = FALSE)
    /\ [][(ret'.op \in IdLookups \cup {"contains_id"} /\ first[ret'.arg] = None) =>
             (map' = map /\ ~panicked')]_vars

\* C10 witness: get_id_full_mut has just returned None for an absent
\* identifier on a manager that holds entries.
C10_Witness ==
    /\ ret.op = "get_id_full_mut"
    /\ ret.out = None
    /\ first[ret.arg] = None
    /\ len(map) >= 1

\* C11: a forward traversal of a fresh adapter, of either kind, over a
\* manager with n entries yields exactly n triples: the call of next()
\* that follows k yielded items and nothing else returns, for k < n, the
\* ticket of position k with the identifier and the value stored at
\* position k, which is the k-th identifier in order of first insertion
\* with the value stored for it last, and returns None for k = n.
C11_ForwardTraversalInInsertionOrder ==
    [][(/\ ret'.op = "next"
        /\ trav.back = 0
        /\ Cardinality(trav.seen) = trav.front) =>
          LET k == trav.front IN
          IF k < len(map)
          THEN /\ IsSome(ret'.out)
               /\ to_index(Unwrap(ret'.out).ticket) = k
               /\ Unwrap(ret'.out).id = map[k + 1].key
               /\ Unwrap(ret'.out).value = map[k + 1].value
               /\ Unwrap(ret'.out).id = order[k + 1]
               /\ Some(Unwrap(ret'.out).value) = latest[order[k + 1]]
          ELSE ret'.out = None]_vars

\* C11 witness: a traversal by next() alone has just yielded the entry at
\* position 1, after the one at position 0, of a map whose two entries
\* hold different values.
C11_Witness ==
    /\ ret.op = "next"
    /\ IsSome(ret.out)
    /\ to_index(Unwrap(ret.out).ticket) = 1
    /\ trav.front = 2
    /\ trav.back = 0
    /\ Cardinality(trav.seen) = 2
    /\ map[1].value /= map[2].value

\* What a caller sees of a stepped adapter: None at the end, the mapped
\* item otherwise; None also stands for the panic of map_next.
Yielded(m, item) ==
    IF item = None THEN None
    ELSE IF map_next_panics(Unwrap(item)) THEN None
    ELSE Some(map_next(m, Unwrap(item)))

\* The items a caller collects by calling next() until it returns None.
RECURSIVE ExhaustNext(_, _)
ExhaustNext(m, it) ==
    LET r == enum_next(it) IN
    IF r.item = None THEN << >>
    ELSE << Yielded(m, r.item) >> \o ExhaustNext(m, r.it)

\* The items a caller collects by calling next_back() until it returns
\* None.
RECURSIVE ExhaustNextBack(_, _)
ExhaustNextBack(m, it) ==
    LET r == enum_next_back(it) IN
    IF r.item = None THEN << >>
    ELSE << Yielded(m, r.item) >> \o ExhaustNextBack(m, r.it)

\* A sequence back to front.
Reverse(s) == [i \in 1 .. Len(s) |-> s[Len(s) + 1 - i]]

\* C12: for every manager state and every adapter over it, fresh or
\* partly consumed, the items obtained by calling next() to exhaustion,
\* reversed, are the items obtained by calling next_back() to exhaustion
\* on the same adapter state, tickets included.
C12_ForwardReversedIsBackward ==
    iter.kind /= "none" =>
        Reverse(ExhaustNext(map, iter)) = ExhaustNextBack(map, iter)

\* C12 witness: a fresh adapter over a full map of two entries with
\* different values, whose backward traversal starts with the ticket of
\* position 1.
C12_Witness ==
    /\ ret.op = "iter"
    /\ iter.kind = "iter"
    /\ len(map) = 2
    /\ map[1].value /= map[2].value
    /\ Len(ExhaustNextBack(map, iter)) = 2
    /\ ExhaustNextBack(map, iter)[1] = Some([ticket |-> Ticket(1),
                                             id |-> map[2].key,
                                             value |-> map[2].value])

\* The adapter after n calls of next() whose results are discarded.
RECURSIVE AfterNexts(_, _)
AfterNexts(it, n) ==
    IF n = 0 THEN it ELSE AfterNexts(enum_next(it).it, n - 1)

\* The adapter after n calls of next_back() whose results are discarded.
RECURSIVE AfterNextBacks(_, _)
AfterNextBacks(it, n) ==
    IF n = 0 THEN it ELSE AfterNextBacks(enum_next_back(it).it, n - 1)

\* The skips the comparison is made for: up to past the end of the
\* longest map.
SkipsTried == 0 .. (TicketMax + 2)

\* The inner iterator of an adapter, Enumerate's running index left out.
Inner(it) == [kind |-> it.kind, front |-> it.front, back |-> it.back]

\* C13 as stated: for every adapter state and every n, nth(n) returns the
\* same item and leaves the adapter in the same state as n discarded
\* calls of next() followed by next(), and nth_back(n) the same as n
\* discarded calls of next_back() followed by next_back().
C13_NthLeavesStateOfRepeatedNext ==
    iter.kind /= "none" =>
        \A n \in SkipsTried :
            LET a == enum_nth(iter, n)
                b == enum_next(AfterNexts(iter, n))
                c == enum_nth_back(iter, n)
                d == enum_next_back(AfterNextBacks(iter, n))
            IN  /\ Yielded(map, a.item) = Yielded(map, b.item)
                /\ a.it = b.it
                /\ Yielded(map, c.item) = Yielded(map, d.item)
                /\ c.it = d.it

\* C13 amended: nth(n) returns the same item as n discarded calls of
\* next() followed by next(), and leaves the same adapter state whenever
\* it returns an item; when it runs past the end, both ways leave the
\* inner iterator empty at the same place, and only Enumerate's running
\* index differs.  nth_back(n) returns the same item and leaves the same
\* state as n discarded calls of next_back() followed by next_back().
C13_NthYieldsAsRepeatedNext ==
    iter.kind /= "none" =>
        \A n \in SkipsTried :
            LET a == enum_nth(iter, n)
                b == enum_next(AfterNexts(iter, n))
                c == enum_nth_back(iter, n)
                d == enum_next_back(AfterNextBacks(iter, n))
            IN  /\ Yielded(map, a.item) = Yielded(map, b.item)
                /\ a.item /= None => a.it = b.it
                /\ a.item = None =>
                      /\ Inner(a.it) = Inner(b.it)
                      /\ Remaining(a.it) = 0
                      /\ ExhaustNext(map, a.it) = ExhaustNext(map, b.it)
                      /\ ExhaustNextBack(map, a.it) = ExhaustNextBack(map, b.it)
                /\ Yielded(map, c.item) = Yielded(map, d.item)
                /\ c.it = d.it

\* C13 witness: nth(1) has just skipped the entry at position 0 of a full
\* map and returned the one at position 1, leaving Enumerate's index at 2.
C13_Witness ==
    /\ ret.op = "nth"
    /\ ret.arg = 1
    /\ IsSome(ret.out)
    /\ to_index(Unwrap(ret.out).ticket) = 1
    /\ iter.count = 2
    /\ iter.front = 2

\* C14: once an adapter has returned None from next(), next_back(), nth()
\* or nth_back(), every later call of next() and of next_back() on that
\* adapter returns None, whatever calls were made in between.
C14_ExhaustedStaysExhausted ==
    [][(trav.exhausted /\ ret'.op \in {"next", "next_back"}) =>
          (ret'.out = None /\ ~panicked' /\ trav'.exhausted)]_vars

\* C14 witness: nth_back ran past the front of an adapter that had yielded
\* an entry and had one left, and a later next() has returned None.
C14_Witness ==
    /\ trav.exhausted
    /\ ret.op = "next"
    /\ ret.out = None
    /\ Cardinality(trav.seen) = 1
    /\ trav.front = 1
    /\ trav.back = 1
    /\ len(map) = 2

\* C15: at every point of a traversal, under any interleaving of next(),
\* next_back(), nth() and nth_back(), the adapter has left exactly the
\* entries it has neither yielded nor skipped, len() and count() return
\* their number and size_hint() returns (len(), Some(len())); for a fresh
\* adapter that number is the manager's len().
C15_LenIsWhatIsLeft ==
    /\ [](iter.kind /= "none" =>
            /\ trav.front + trav.back <= len(map)
            /\ Remaining(iter) = len(map) - trav.front - trav.back)
    /\ [][LET n == len(map) - trav.front - trav.back IN
          /\ ret'.op \in {"iter_len", "count"} => ret'.out = n
          /\ ret'.op = "size_hint" => ret'.out = << n, Some(n) >>
          /\ (ret'.op \in {"iter_len", "count"} /\ trav = NoTrav) =>
                ret'.out = len(map)]_vars

\* C15 witness: size_hint() has just answered (0, Some(0)) on a mutable
\* adapter that gave one entry from the front and one from the back and
\* has not yet returned None.
C15_Witness ==
    /\ ret.op = "size_hint"
    /\ ret.out = << 0, Some(0) >>
    /\ iter.kind = "iter_mut"
    /\ trav.front = 1
    /\ trav.back = 1
    /\ ~trav.exhausted

\* C16: in every state of the manager a fresh adapter of either kind can
\* be obtained through the manager's public surface: some call of that
\* surface leaves an adapter that starts at position 0 and has len()
\* entries left.
C16_FreshAdapterObtainable ==
    \A kind \in {"iter", "iter_mut"} :
        ENABLED (Next /\ iter' = [kind |-> kind, front |-> 0,
                                  back |-> len(map), count |-> 0])

\* C17: for the ticket type the derive generates over an unsigned integer
\* of width w, from_index(p) succeeds exactly when p <= 2^w - 1 and is
\* None for every larger p, and every representable p survives the round
\* trip to_index(from_index(p).unwrap()) = p; conversely every ticket is
\* the one from_index makes from its to_index.
C17_DerivedTicketRoundTrip ==
    /\ ret.op = "from_index" =>
          LET w == ret.arg[1]
              p == ret.arg[2]
          IN  /\ IsSome(ret.out) <=> p <= 2 ^ w - 1
              /\ p > 2 ^ w - 1 => ret.out = None
              /\ IsSome(ret.out) => derive_to_index(Unwrap(ret.out)) = p
    /\ ret.op = "to_index" =>
          derive_from_index(ret.arg.bits, ret.out) = Some(ret.arg)

\* C17 witness: from_index has just succeeded for the largest position a
\* three-bit ticket can hold, which is not the largest usize.
C17_Witness ==
    /\ ret.op = "from_index"
    /\ ret.arg = << 3, 7 >>
    /\ IsSome(ret.out)
    /\ 7 < 2 ^ UsizeBits - 1

\* The calls of an adapter that yield one item.
Yields == {"next", "nth", "next_back", "nth_back", "last"}

\* C18: under any interleaving of next(), next_back(), nth() and
\* nth_back() on one adapter (and a closing last()), every item yielded
\* carries the ticket of the entry's position in the manager, counted from
\* the start of the map also when the item is taken from the back: the
\* ticket insert returned for the identifier, and the one that addresses
\* the item's identifier and value; the front and back cursors never
\* cross; and no entry is yielded more than once.
C18_YieldsTruePositionOnce ==
    /\ [](/\ iter.front <= iter.back
          /\ iter.back <= len(map)
          /\ ~panicked)
    /\ [][(ret'.op \in Yields /\ IsSome(ret'.out)) =>
             LET item == Unwrap(ret'.out) IN
             /\ InBounds(map, item.ticket)
             /\ EntryAt(map, to_index(item.ticket)).key = item.id
             /\ EntryAt(map, to_index(item.ticket)).value = item.value
             /\ Some(item.ticket) = first[item.id]
             /\ Some(item.ticket) = get_ticket_of(map, item.id)
             /\ item.id \notin trav.seen]_vars

\* C18 witness: after next() gave the entry at position 0, next_back() has
\* just given the entry at position 1, the only one left, and the
\* cursors have met.
C18_Witness ==
    /\ ret.op = "next_back"
    /\ IsSome(ret.out)
    /\ to_index(Unwrap(ret.out).ticket) = 1
    /\ trav.front = 1
    /\ trav.back = 1
    /\ Cardinality(trav.seen) = 2
    /\ iter.front = iter.back

\* C19: in every reachable state from_index(i) succeeds for every position
\* i < len(); hence get_id_full, get_id_full_mut and get_ticket_of never
\* return None for a present identifier, and neither the unwrap of
\* from_index in the adapters nor the unwrap of get_index in
\* get_ticket_full, called with a ticket the manager handed out, panics.
C19_PositionsHaveTickets ==
    /\ \A i \in 0 .. (len(map) - 1) : IsSome(from_index(i))
    /\ \A id \in Keys(map) :
          /\ IsSome(get_id_full(map, id))
          /\ IsSome(get_id_full_mut(map, id))
          /\ IsSome(get_ticket_of(map, id))
    /\ (ret.op \in {"get_id_full", "get_id_full_mut", "get_ticket_of"}
          /\ contains_id(map, ret.arg)) => IsSome(ret.out)
    /\ \A ticket \in handed : InBounds(map, ticket)
    /\ iter.kind /= "none" =>
          /\ \A k \in 1 .. Remaining(iter) : ~map_next_panics(enum_rest(iter)[k])
          /\ enum_next_back(iter).item /= None =>
                ~map_next_panics(Unwrap(enum_next_back(iter).item))
    /\ ~panicked

\* C19 witness: on a full map, where can_insert() is false, get_id_full
\* has just returned the entry at the last position with its ticket.
C19_Witness ==
    /\ ret.op = "get_id_full"
    /\ IsSome(ret.out)
    /\ to_index(Unwrap(ret.out).ticket) = TicketMax
    /\ ~can_insert(map)

\* The calls that hand out a mutable reference by identifier, and by
\* ticket.
MutById == {"get_id_mut", "get_id_full_mut"}
MutByTicket == {"get_ticket_mut", "get_ticket_full_mut", "index_mut"}

\* The positions the call that has just returned gave mutable access to.
Addressed ==
    IF ret'.op \in MutById
    THEN {i \in 0 .. (len(map) - 1) : EntryAt(map, i).key = ret'.arg}
    ELSE IF ret'.op \in MutByTicket
    THEN {to_index(ret'.arg)}
    ELSE IF IsSome(ret'.out)
    THEN {to_index(Unwrap(ret'.out).ticket)}
    ELSE {}

\* C20: a value written in place through get_id_mut, get_id_full_mut,
\* get_ticket_mut, get_ticket_full_mut, the mutable indexing operator or
\* an item of the mutable adapter changes only the value of the addressed
\* entry: the map afterwards is the map before with at most that one
\* value replaced, so len(), the identifier at every position and the
\* values of all other entries stay as they were, and so does the ticket
\* of every identifier.
C20_WriteInPlaceTouchesOneValue ==
    [][(\/ ret'.op \in MutById \cup MutByTicket
        \/ (iter.kind = "iter_mut" /\ ret'.op \in Yields)) =>
          LET addressed == Addressed IN
          /\ IF addressed = {} THEN map' = map
             ELSE \A p \in addressed :
                     /\ p < len(map')
                     /\ map' = [map EXCEPT ![p + 1].value = EntryAt(map', p).value]
          /\ \A id \in Identifiers :
                get_ticket_of(map', id) = get_ticket_of(map, id)
          /\ first' = first
          /\ ~panicked']_vars

\* C20 witness: manager[ticket] = w has just replaced the value of one
\* entry of a full map by another value.
C20_Witness ==
    /\ ret.op = "index_mut"
    /\ len(map) = TicketMax + 1
    /\ InBounds(map, ret.arg)
    /\ EntryAt(map, to_index(ret.arg)).value /= ret.out

====
